---- MODULE Spec2Model ----
(***************************************************************************)
(* Pentago (src/Pentago.py): the 6x6 board with its four 3x3 blocks, the   *)
(* move enumerator, win detection, the heuristic h and the two-ply search  *)
(* miniMax2.                                                               *)
(*                                                                         *)
(* Text is modelled as a sequence of one-character strings, so Python's    *)
(* s[k] is s[k + 1] here.  A PentagoBoard object is a record with the      *)
(* fields board (the 6x6 list of lists, indexed 0..5) and emptyCells.      *)
(***************************************************************************)
EXTENDS Integers, Sequences, FiniteSets, TLC

VARIABLES
  pb,     \* the PentagoBoard object the program holds
  last,   \* the last call made and what it returned
  nops,   \* the number of calls made so far
  game    \* the players and the local variables of the turn loop

vars == <<pb, last, nops, game>>

(***************************************************************************)
(* PentagoBoard.__init__                                                   *)
(***************************************************************************)
BOARD_SIZE == 6
GRID_SIZE == 3
GRID_ELEMENTS == GRID_SIZE * GRID_SIZE
INFINITY == 10000

Tokens == {"b", "w"}
Chars == {"b", "w", "."}
Index == 0 .. (BOARD_SIZE - 1)

\* str.count(".")
RECURSIVE count(_, _)
count(s, ch) ==
  IF s = <<>> THEN 0
  ELSE (IF Head(s) = ch THEN 1 ELSE 0) + count(Tail(s), ch)

\* PentagoBoard(board) for the empty text or a text of at least 36 characters
\* (a shorter non-empty text raises IndexError, see PentagoBoardRaises).
PentagoBoard(board) ==
  IF board = <<>>
  THEN [board |-> [row \in Index |-> [col \in Index |-> "."]],
        emptyCells |-> BOARD_SIZE * BOARD_SIZE]
  ELSE [board |-> [row \in Index |-> [col \in Index |->
                     board[row * BOARD_SIZE + col + 1]]],
        emptyCells |-> count(board, ".")]

PentagoBoardRaises(board) ==
  board # <<>> /\ Len(board) < BOARD_SIZE * BOARD_SIZE

\* PentagoBoard.toString
toString(self) ==
  [k \in 1 .. (BOARD_SIZE * BOARD_SIZE) |->
     self.board[(k - 1) \div BOARD_SIZE][(k - 1) % BOARD_SIZE]]

(***************************************************************************)
(* str() and int() of the one-digit numbers that occur in a move text      *)
(***************************************************************************)
Digits == <<"0", "1", "2", "3", "4", "5", "6", "7", "8", "9">>

str(n) == Digits[n + 1]

int(ch) == (CHOOSE k \in 1 .. Len(Digits) : Digits[k] = ch) - 1

(***************************************************************************)
(* PentagoBoard.getMoves: the loop over the cells in row-major order; an   *)
(* empty cell appends its eight moves.                                     *)
(***************************************************************************)
\* getMovesBlocks appending the left turn of each block only
RECURSIVE getMovesBlocksLeftOnly(_, _, _)
getMovesBlocksLeftOnly(pos, k, numBlocks) ==
  IF k >= numBlocks THEN <<>>
  ELSE LET block == str(k + 1)
       IN  <<pos \o <<block>> \o <<"L">>>>
             \o getMovesBlocksLeftOnly(pos, k + 1, numBlocks)

RECURSIVE getMovesBlocks(_, _, _)
getMovesBlocks(pos, k, numBlocks) ==
  IF k >= numBlocks THEN <<>>
  ELSE LET block == str(k + 1)
       IN  <<pos \o <<block>> \o <<"L">>, pos \o <<block>> \o <<"R">>>>
             \o getMovesBlocks(pos, k + 1, numBlocks)

\* getMovesLoop visiting the cells column by column
RECURSIVE getMovesLoopColumnMajor(_, _)
getMovesLoopColumnMajor(self, n) ==
  IF n >= BOARD_SIZE * BOARD_SIZE THEN <<>>
  ELSE LET i == n % BOARD_SIZE
           j == n \div BOARD_SIZE
       IN  IF self.board[i][j] = "."
           THEN LET gameBlock == (i \div GRID_SIZE) * 2 + (j \div GRID_SIZE) + 1
                    position == (i % GRID_SIZE) * GRID_SIZE + (j % GRID_SIZE) + 1
                    pos == <<str(gameBlock)>> \o <<"/">> \o <<str(position)>> \o <<" ">>
                    numBlocks == (BOARD_SIZE \div GRID_SIZE) * (BOARD_SIZE \div GRID_SIZE)
                IN  getMovesBlocks(pos, 0, numBlocks) \o getMovesLoopColumnMajor(self, n + 1)
           ELSE getMovesLoopColumnMajor(self, n + 1)

RECURSIVE getMovesLoop(_, _)
getMovesLoop(self, n) ==
  IF n >= BOARD_SIZE * BOARD_SIZE THEN <<>>
  ELSE LET i == n \div BOARD_SIZE
           j == n % BOARD_SIZE
       IN  IF self.board[i][j] = "."
           THEN LET gameBlock == (i \div GRID_SIZE) * 2 + (j \div GRID_SIZE) + 1
                    position == (i % GRID_SIZE) * GRID_SIZE + (j % GRID_SIZE) + 1
                    pos == <<str(gameBlock)>> \o <<"/">> \o <<str(position)>> \o <<" ">>
                    numBlocks == (BOARD_SIZE \div GRID_SIZE) * (BOARD_SIZE \div GRID_SIZE)
                IN  getMovesBlocks(pos, 0, numBlocks) \o getMovesLoop(self, n + 1)
           ELSE getMovesLoop(self, n + 1)

getMoves(self) == getMovesLoop(self, 0)

(***************************************************************************)
(* PentagoBoard.rotateLeft / rotateRight: the result starts as a deep copy *)
(* of self; the double loop over the block reads self and writes the copy. *)
(***************************************************************************)
\* rotateLeftLoop with the target row taken from the column index unmirrored
\* (a transposition of the block instead of a quarter turn)
RECURSIVE rotateLeftLoopTransposed(_, _, _, _, _)
rotateLeftLoopTransposed(self, rotLeft, rowOffset, colOffset, n) ==
  IF n >= GRID_ELEMENTS THEN rotLeft
  ELSE LET i == rowOffset + (n \div GRID_SIZE)
           j == colOffset + (n % GRID_SIZE)
       IN  rotateLeftLoopTransposed(self,
             [rotLeft EXCEPT !.board[j + rowOffset - colOffset][i - rowOffset + colOffset]
                               = self.board[i][j]],
             rowOffset, colOffset, n + 1)

RECURSIVE rotateLeftLoop(_, _, _, _, _)
rotateLeftLoop(self, rotLeft, rowOffset, colOffset, n) ==
  IF n >= GRID_ELEMENTS THEN rotLeft
  ELSE LET i == rowOffset + (n \div GRID_SIZE)
           j == colOffset + (n % GRID_SIZE)
       IN  rotateLeftLoop(self,
             [rotLeft EXCEPT !.board[2 - j + rowOffset + colOffset][i - rowOffset + colOffset]
                               = self.board[i][j]],
             rowOffset, colOffset, n + 1)

rotateLeft(self, gameBlock) ==
  LET rowOffset == ((gameBlock - 1) \div 2) * GRID_SIZE
      colOffset == ((gameBlock - 1) % 2) * GRID_SIZE
  IN  rotateLeftLoop(self, self, rowOffset, colOffset, 0)

RECURSIVE rotateRightLoop(_, _, _, _, _)
rotateRightLoop(self, rotRight, rowOffset, colOffset, n) ==
  IF n >= GRID_ELEMENTS THEN rotRight
  ELSE LET i == rowOffset + (n \div GRID_SIZE)
           j == colOffset + (n % GRID_SIZE)
       IN  rotateRightLoop(self,
             [rotRight EXCEPT !.board[j + rowOffset - colOffset][2 - i + rowOffset + colOffset]
                                = self.board[i][j]],
             rowOffset, colOffset, n + 1)

\* rotateRight turning the block the other way
rotateRightTurnsLeft(self, gameBlock) ==
  LET rowOffset == ((gameBlock - 1) \div 2) * GRID_SIZE
      colOffset == ((gameBlock - 1) % 2) * GRID_SIZE
  IN  rotateLeftLoop(self, self, rowOffset, colOffset, 0)

rotateRight(self, gameBlock) ==
  LET rowOffset == ((gameBlock - 1) \div 2) * GRID_SIZE
      colOffset == ((gameBlock - 1) % 2) * GRID_SIZE
  IN  rotateRightLoop(self, self, rowOffset, colOffset, 0)

(***************************************************************************)
(* PentagoBoard.applyMove: decode the text, write the token into a copy    *)
(* (whatever the cell holds; emptyCells is copied, not changed), rotate.   *)
(***************************************************************************)
applyMoveRow(move) ==
  ((int(move[3]) - 1) \div GRID_SIZE) + GRID_SIZE * ((int(move[1]) - 1) \div 2)

applyMoveCol(move) ==
  ((int(move[3]) - 1) % GRID_SIZE) + GRID_SIZE * ((int(move[1]) - 1) % 2)

\* applyMove rotating before it writes the token
applyMoveRotatesFirst(self, move, token) ==
  LET rotBlock == int(move[5])
      direction == move[6]
      i == applyMoveRow(move)
      j == applyMoveCol(move)
      newBoard == IF direction = "r" \/ direction = "R"
                  THEN rotateRight(self, rotBlock)
                  ELSE rotateLeft(self, rotBlock)
  IN  [newBoard EXCEPT !.board[i][j] = token]

applyMove(self, move, token) ==
  LET rotBlock == int(move[5])
      direction == move[6]
      i == applyMoveRow(move)
      j == applyMoveCol(move)
      newBoard == [self EXCEPT !.board[i][j] = token]
  IN  IF direction = "r" \/ direction = "R"
      THEN rotateRight(newBoard, rotBlock)
      ELSE rotateLeft(newBoard, rotBlock)

\* applyMove holds no test of the cell it writes and no raise statement
applyMoveRaises(self, move, token) == FALSE

(***************************************************************************)
(* The lines Player.win and Player.h scan, each a sequence of cells        *)
(* <<row, col>>: the rows, the columns, and the 22 diagonals numpy yields  *)
(* (matrix[::-1, :].diagonal(o) for o = -5..5, then matrix.diagonal(o) for *)
(* o = 5..-5).                                                             *)
(***************************************************************************)
rowLine(i) == [k \in 1 .. BOARD_SIZE |-> <<i, k - 1>>]

colLine(j) == [k \in 1 .. BOARD_SIZE |-> <<k - 1, j>>]

\* numpy's diagonal(o) of a 6x6 matrix: the cells (t, t + o) for o >= 0 and
\* (t - o, t) for o < 0; flipped, row r of the matrix is row 5 - r of the board.
diagonal(flipped, o) ==
  [k \in 1 .. (BOARD_SIZE - (IF o < 0 THEN -o ELSE o)) |->
     LET r == IF o < 0 THEN (k - 1) - o ELSE k - 1
         c == IF o < 0 THEN k - 1 ELSE (k - 1) + o
     IN  <<IF flipped THEN (BOARD_SIZE - 1) - r ELSE r, c>>]

rows == [n \in 1 .. BOARD_SIZE |-> rowLine(n - 1)]

diags ==
  [n \in 1 .. 11 |-> diagonal(TRUE, n - 6)] \o [n \in 1 .. 11 |-> diagonal(FALSE, 6 - n)]

(***************************************************************************)
(* Player.win: one counter runs along the rows, one per column, one along  *)
(* the diagonals.  A counter is set to 1 on a token that starts a line or  *)
(* follows another cell, counts up on a token that follows a token, drops  *)
(* to 0 on another cell past the start of a line, and is left as it is on  *)
(* another cell at the start of a line.                                    *)
(***************************************************************************)
\* winLine with a token at the start of a line counted on from the line before
RECURSIVE winLineCarriesOver(_, _, _, _, _)
winLineCarriesOver(board, token, line, k, counter) ==
  IF k > Len(line) THEN [found |-> FALSE, counter |-> counter]
  ELSE LET curr == board[line[k][1]][line[k][2]]
           next == IF curr = token THEN counter + 1 ELSE 0
       IN  IF curr = token /\ next = 5
           THEN [found |-> TRUE, counter |-> next]
           ELSE winLineCarriesOver(board, token, line, k + 1, next)

RECURSIVE winLine(_, _, _, _, _)
winLine(board, token, line, k, counter) ==
  IF k > Len(line) THEN [found |-> FALSE, counter |-> counter]
  ELSE LET curr == board[line[k][1]][line[k][2]]
           prev == board[line[k - 1][1]][line[k - 1][2]]
           next == IF k > 1
                   THEN IF curr = token
                        THEN IF prev = token THEN counter + 1 ELSE 1
                        ELSE 0
                   ELSE IF curr = token THEN 1 ELSE counter
       IN  IF k > 1 /\ curr = token /\ prev = token /\ next = 5
           THEN [found |-> TRUE, counter |-> next]
           ELSE winLine(board, token, line, k + 1, next)

RECURSIVE winLines(_, _, _, _, _)
winLines(board, token, lines, n, counter) ==
  IF n > Len(lines) THEN FALSE
  ELSE LET r == winLine(board, token, lines[n], 1, counter)
       IN  r.found \/ winLines(board, token, lines, n + 1, r.counter)

win(token, inpboard) ==
  \/ winLines(inpboard.board, token, rows, 1, 0)
  \/ \E j \in Index : winLine(inpboard.board, token, colLine(j), 1, 0).found
  \/ winLines(inpboard.board, token, diags, 1, 0)

(***************************************************************************)
(* Player.h: for the player's token, 5 for each token in rows 1..4 and     *)
(* columns 1..4, and the same counters as win, adding 100 when a counter   *)
(* becomes 3 and 900 when it becomes 4 and returning 9999 when it becomes  *)
(* 5; then the same for the other token into badval, returning -9999 on 5; *)
(* then val - badval.                                                      *)
(***************************************************************************)
\* hLine adding 100 at every step of a run from length 3 on
RECURSIVE hLineRetriggers(_, _, _, _, _, _)
hLineRetriggers(board, token, line, k, counter, val) ==
  IF k > Len(line) THEN [five |-> FALSE, counter |-> counter, val |-> val]
  ELSE LET curr == board[line[k][1]][line[k][2]]
           prev == board[line[k - 1][1]][line[k - 1][2]]
           next == IF k > 1
                   THEN IF curr = token
                        THEN IF prev = token THEN counter + 1 ELSE 1
                        ELSE 0
                   ELSE IF curr = token THEN 1 ELSE counter
           grown == k > 1 /\ curr = token /\ prev = token
           bonus == IF grown /\ next >= 3 THEN 100 ELSE 0
       IN  IF grown /\ next = 5
           THEN [five |-> TRUE, counter |-> next, val |-> val]
           ELSE hLineRetriggers(board, token, line, k + 1, next, val + bonus)

RECURSIVE hLine(_, _, _, _, _, _)
hLine(board, token, line, k, counter, val) ==
  IF k > Len(line) THEN [five |-> FALSE, counter |-> counter, val |-> val]
  ELSE LET curr == board[line[k][1]][line[k][2]]
           prev == board[line[k - 1][1]][line[k - 1][2]]
           next == IF k > 1
                   THEN IF curr = token
                        THEN IF prev = token THEN counter + 1 ELSE 1
                        ELSE 0
                   ELSE IF curr = token THEN 1 ELSE counter
           grown == k > 1 /\ curr = token /\ prev = token
           bonus == IF grown /\ next = 3 THEN 100
                    ELSE IF grown /\ next = 4 THEN 900 ELSE 0
       IN  IF grown /\ next = 5
           THEN [five |-> TRUE, counter |-> next, val |-> val]
           ELSE hLine(board, token, line, k + 1, next, val + bonus)

RECURSIVE hLines(_, _, _, _, _, _)
hLines(board, token, lines, n, counter, val) ==
  IF n > Len(lines) THEN [five |-> FALSE, val |-> val]
  ELSE LET r == hLine(board, token, lines[n], 1, counter, val)
       IN  IF r.five THEN [five |-> TRUE, val |-> r.val]
           ELSE hLines(board, token, lines, n + 1, r.counter, r.val)

\* the columns: col_counter[j] starts at 0 for every column
RECURSIVE hCols(_, _, _, _)
hCols(board, token, j, val) ==
  IF j >= BOARD_SIZE THEN [five |-> FALSE, val |-> val]
  ELSE LET r == hLine(board, token, colLine(j), 1, 0, val)
       IN  IF r.five THEN [five |-> TRUE, val |-> r.val]
           ELSE hCols(board, token, j + 1, r.val)

hCenter(board, token) ==
  5 * Cardinality({c \in Index \X Index :
                     /\ board[c[1]][c[2]] = token
                     /\ c[1] > 0 /\ c[1] < 5 /\ c[2] > 0 /\ c[2] < 5})

\* one token's half of h: its total, or five when a counter became 5
hToken(board, token) ==
  LET r == hLines(board, token, rows, 1, 0, hCenter(board, token))
      c == hCols(board, token, 0, r.val)
      d == hLines(board, token, diags, 1, 0, c.val)
  IN  IF r.five \/ c.five THEN [five |-> TRUE, val |-> 0] ELSE d

h(token, inpboard) ==
  LET badtoken == IF token = "w" THEN "b" ELSE "w"
      own == hToken(inpboard.board, token)
      bad == hToken(inpboard.board, badtoken)
  IN  IF own.five THEN 9999
      ELSE IF bad.five THEN -9999
      ELSE own.val - bad.val

(***************************************************************************)
(* Player.miniMax2.  None is modelled as the empty text.  The result is    *)
(* the pair <<move, value>>.                                               *)
(*                                                                         *)
(* A local variable of the code is bound as x \in {value}, and the         *)
(* expression that uses it is the one element of {e(x) : x \in {value}}:   *)
(* the value is computed once, when the code assigns it.  The body of a    *)
(* loop is computed for each element of the list, as pairs <<n, result>>,  *)
(* and the loop then runs over the pairs in the order of the list with its *)
(* running variables and its returns.  The body reads none of the running  *)
(* variables, so a body computed for an element the loop does not reach    *)
(* changes nothing.                                                        *)
(***************************************************************************)
None == <<>>

TheOne(S) == CHOOSE x \in S : TRUE

At(pairs, n) == (CHOOSE x \in pairs : x[1] = n)[2]

\* the body of the loop over enemyMoveList: currValue for each enemy move
miniMax2CurrValues(token, newBoard, enemyToken, enemyMoveList) ==
  {<<n, h(token, applyMove(newBoard, enemyMoveList[n], enemyToken))>> :
     n \in 1 .. Len(enemyMoveList)}

\* the loop over enemyMoveList, from its n-th move on, with its running min
RECURSIVE miniMax2Replies(_, _, _)
miniMax2Replies(currValues, n, min) ==
  IF n > Cardinality(currValues) THEN min
  ELSE TheOne({miniMax2Replies(currValues, n + 1, least) :
         least \in {IF currValue < min THEN currValue ELSE min :
           currValue \in {At(currValues, n)}}})

\* the body of the loop over moveList for one move: whether the move wins,
\* the number of enemy moves after it, and the min over them
miniMax2Move(token, board, move) ==
  TheOne({
    IF win(token, newBoard) THEN [win |-> TRUE, replies |-> 0, min |-> 0]
    ELSE TheOne({
      IF Len(enemyMoveList) = 0
      THEN [win |-> FALSE, replies |-> 0, min |-> 0]
      ELSE TheOne({
        [win |-> FALSE, replies |-> Len(enemyMoveList),
         min |-> miniMax2Replies(currValues, 1, INFINITY + 1)] :
        currValues \in {miniMax2CurrValues(token, newBoard,
                                           IF token = "b" THEN "w" ELSE "b",
                                           enemyMoveList)}}) :
      enemyMoveList \in {getMoves(newBoard)}}) :
    newBoard \in {applyMove(board, move, token)}})

\* the loop over moveList, from its n-th move on, with its running max and
\* finalMove
RECURSIVE miniMax2Loop(_, _, _, _, _)
miniMax2Loop(moves, moveList, n, max, finalMove) ==
  IF n > Len(moveList) THEN <<finalMove, max>>
  ELSE TheOne({
         IF this.win THEN <<moveList[n], INFINITY>>
         ELSE IF this.replies = 0 THEN <<None, 0>>
         ELSE IF this.min > max
              THEN miniMax2Loop(moves, moveList, n + 1, this.min, moveList[n])
              ELSE miniMax2Loop(moves, moveList, n + 1, max, finalMove) :
         this \in {At(moves, n)}})

\* miniMax2 without the test for an empty moveList
miniMax2NoEmptyTest(token, board) ==
  TheOne({
    TheOne({miniMax2Loop(moves, moveList, 1, -(INFINITY + 1), None) :
      moves \in {{<<n, miniMax2Move(token, board, moveList[n])>> :
                   n \in 1 .. Len(moveList)}}}) :
    moveList \in {getMoves(board)}})

miniMax2(token, board) ==
  TheOne({
    IF Len(moveList) = 0 THEN <<None, 0>>
    ELSE TheOne({miniMax2Loop(moves, moveList, 1, -(INFINITY + 1), None) :
           moves \in {{<<n, miniMax2Move(token, board, moveList[n])>> :
                        n \in 1 .. Len(moveList)}}}) :
    moveList \in {getMoves(board)}})

(***************************************************************************)
(* The record of the last call: its name, its arguments, the board it was  *)
(* called on, what it returned and whether it raised an exception.         *)
(***************************************************************************)
Call(op, token, move, block, before, value, raised) ==
  [op |-> op, token |-> token, move |-> move, block |-> block,
   before |-> before, value |-> value, raised |-> raised]

\* the value of game while no turn loop runs
NoGame == [running |-> FALSE]

Blocks == 1 .. 4

Cells == Index \X Index

\* the text of the cells that are in `cells` set to ch, the others as in text
Overlay(text, cells, ch) ==
  [k \in 1 .. (BOARD_SIZE * BOARD_SIZE) |->
     IF <<(k - 1) \div BOARD_SIZE, (k - 1) % BOARD_SIZE>> \in cells
     THEN ch ELSE text[k]]

Dots == [k \in 1 .. (BOARD_SIZE * BOARD_SIZE) |-> "."]

\* the board of the comment in PentagoBoard.__init__
ExampleText ==
  << "w", ".", "b", ".", "b", "w",
     ".", "w", ".", "b", ".", "w",
     "b", ".", "w", ".", ".", "w",
     "b", ".", ".", ".", ".", "w",
     ".", ".", ".", "b", "w", ".",
     "b", "b", "b", ".", "w", "w" >>

(***************************************************************************)
(* SpecBoard: a board is constructed, then rotateLeft, rotateRight and     *)
(* applyMove are called on it, each result becoming the board.             *)
(***************************************************************************)
MaxOps == 2

BoardTexts == {<<>>, ExampleText}

\* the placements tried: a corner, a centre and two edges, one per block
PlaceInputs == {<<1, 1>>, <<2, 5>>, <<3, 4>>, <<4, 8>>}

MoveInputs ==
  {<<str(p[1]), "/", str(p[2]), " ", str(r), d>> :
     p \in PlaceInputs, r \in Blocks, d \in {"L", "R"}}

InitBoard ==
  /\ \E text \in BoardTexts :
       /\ pb = PentagoBoard(text)
       /\ last = Call("PentagoBoard", ".", None, 0, PentagoBoard(text), 0, FALSE)
  /\ nops = 0
  /\ game = NoGame

RotateLeft(gameBlock) ==
  /\ nops < MaxOps
  /\ pb' = rotateLeft(pb, gameBlock)
  /\ last' = Call("rotateLeft", ".", None, gameBlock, pb, 0, FALSE)
  /\ nops' = nops + 1
  /\ UNCHANGED game

RotateRight(gameBlock) ==
  /\ nops < MaxOps
  /\ pb' = rotateRight(pb, gameBlock)
  /\ last' = Call("rotateRight", ".", None, gameBlock, pb, 0, FALSE)
  /\ nops' = nops + 1
  /\ UNCHANGED game

ApplyMove(move, token) ==
  /\ nops < MaxOps
  /\ pb' = applyMove(pb, move, token)
  /\ last' = Call("applyMove", token, move, 0, pb, 0, applyMoveRaises(pb, move, token))
  /\ nops' = nops + 1
  /\ UNCHANGED game

NextBoard ==
  \/ \E gameBlock \in Blocks : RotateLeft(gameBlock)
  \/ \E gameBlock \in Blocks : RotateRight(gameBlock)
  \/ \E move \in MoveInputs, token \in Tokens : ApplyMove(move, token)

SpecBoard == InitBoard /\ [][NextBoard]_vars

(***************************************************************************)
(* SpecRotate: rotateLeft and rotateRight alone, called on the boards with *)
(* a single token (one for each of the 36 cells), on the empty board and   *)
(* on the board of the comment.                                            *)
(***************************************************************************)
RotateTexts ==
  {Overlay(Dots, {c}, "b") : c \in Cells} \cup {<<>>, ExampleText}

InitRotate ==
  /\ \E text \in RotateTexts :
       /\ pb = PentagoBoard(text)
       /\ last = Call("PentagoBoard", ".", None, 0, PentagoBoard(text), 0, FALSE)
  /\ nops = 0
  /\ game = NoGame

NextRotate ==
  \/ \E gameBlock \in Blocks : RotateLeft(gameBlock)
  \/ \E gameBlock \in Blocks : RotateRight(gameBlock)

SpecRotate == InitRotate /\ [][NextRotate]_vars

(***************************************************************************)
(* What the claims about the board speak of, stated apart from the code:   *)
(* the cell a placement addresses, the blocks, the quarter turns.          *)
(***************************************************************************)
NumCells(board, ch) == Cardinality({c \in Cells : board[c[1]][c[2]] = ch})

Other(token) == IF token = "b" THEN "w" ELSE "b"

\* block q is rows ro..ro+2 and columns co..co+2
RowOffset(q) == 3 * ((q - 1) \div 2)
ColOffset(q) == 3 * ((q - 1) % 2)

BlockCells(q) ==
  {c \in Cells : /\ c[1] \in RowOffset(q) .. (RowOffset(q) + 2)
                 /\ c[2] \in ColOffset(q) .. (ColOffset(q) + 2)}

\* the cell of position pp (1..9, row-major) of block pq (1..4, row-major)
CellOf(pq, pp) ==
  <<RowOffset(pq) + ((pp - 1) \div 3), ColOffset(pq) + ((pp - 1) % 3)>>

\* the grid with block q turned clockwise: local (r, c) goes to (c, 2 - r),
\* so the cell at local (rr, cc) holds what was at local (2 - cc, rr)
TurnRight(board, q) ==
  [i \in Index |-> [j \in Index |->
     IF <<i, j>> \in BlockCells(q)
     THEN board[RowOffset(q) + 2 - (j - ColOffset(q))][ColOffset(q) + (i - RowOffset(q))]
     ELSE board[i][j]]]

\* counter-clockwise: local (r, c) goes to (2 - c, r)
TurnLeft(board, q) ==
  [i \in Index |-> [j \in Index |->
     IF <<i, j>> \in BlockCells(q)
     THEN board[RowOffset(q) + (j - ColOffset(q))][ColOffset(q) + 2 - (i - RowOffset(q))]
     ELSE board[i][j]]]

(***************************************************************************)
(* SpecEval: win and h are called, for either token, on boards that carry  *)
(* a stretch of 3 to MaxRun equal tokens laid along the order in which the *)
(* rows, the columns or the diagonals are scanned (so a stretch may run    *)
(* over the end of one line into the next), over the empty board, the      *)
(* board of the comment, or a board full of the other token.               *)
(***************************************************************************)
MaxRun == 6

RECURSIVE Concat(_)
Concat(ss) == IF ss = <<>> THEN <<>> ELSE Head(ss) \o Concat(Tail(ss))

ScanOrders ==
  {Concat(rows), Concat([j \in 1 .. BOARD_SIZE |-> colLine(j - 1)]), Concat(diags)}

StretchSets ==
  UNION {{{order[k] : k \in s .. (s + len - 1)} : s \in 1 .. (Len(order) - len + 1)} :
           order \in ScanOrders, len \in 3 .. MaxRun}

EvalTexts ==
  {Overlay(Dots, cells, t) : cells \in StretchSets, t \in Tokens}
    \cup {Overlay(ExampleText, cells, t) : cells \in StretchSets, t \in Tokens}
    \cup {Overlay([k \in 1 .. 36 |-> Other(t)], cells, t) :
            cells \in StretchSets, t \in Tokens}

InitEval ==
  /\ \E text \in EvalTexts :
       /\ pb = PentagoBoard(text)
       /\ last = Call("PentagoBoard", ".", None, 0, PentagoBoard(text), 0, FALSE)
  /\ nops = 0
  /\ game = NoGame

Win(token) ==
  /\ last' = Call("win", token, None, 0, pb, win(token, pb), FALSE)
  /\ UNCHANGED <<pb, nops, game>>

H(token) ==
  /\ last' = Call("h", token, None, 0, pb, h(token, pb), FALSE)
  /\ UNCHANGED <<pb, nops, game>>

NextEval ==
  \/ \E token \in Tokens : Win(token)
  \/ \E token \in Tokens : H(token)

SpecEval == InitEval /\ [][NextEval]_vars

(***************************************************************************)
(* SpecSearch: miniMax2 is called for a token and the move it returns is   *)
(* applied, then the same for the other token, as two computer players do  *)
(* in the turn loop.  The boards are three full boards (one with fives in  *)
(* it, one with runs of three and four, one with runs of two only) with up *)
(* to MaxEmpty of the cells HoleCells emptied.  The turn loop's test for a *)
(* finished game is left out: miniMax2 is searched on every such board,    *)
(* with or without a five on it.                                           *)
(***************************************************************************)
MaxEmpty == 2

FullTextFives ==
  << "b", "b", "b", "b", "b", "w",
     "w", "w", "b", "w", "w", "b",
     "b", "w", "w", "b", "w", "w",
     "w", "b", "b", "w", "b", "b",
     "w", "w", "w", "w", "b", "w",
     "b", "w", "b", "b", "w", "b" >>

FullTextRuns ==
  << "b", "b", "w", "w", "b", "b",
     "w", "w", "b", "b", "w", "w",
     "b", "b", "w", "b", "b", "w",
     "w", "b", "b", "w", "w", "b",
     "b", "w", "w", "b", "w", "w",
     "w", "w", "b", "w", "b", "b" >>

FullTextPairs ==
  << "b", "b", "w", "w", "b", "b",
     "w", "w", "b", "b", "w", "w",
     "b", "b", "w", "w", "b", "b",
     "w", "w", "b", "b", "w", "w",
     "b", "b", "w", "w", "b", "b",
     "w", "w", "b", "b", "w", "w" >>

HoleCells == {<<0, 1>>, <<1, 4>>, <<3, 3>>, <<4, 0>>}

SearchTexts ==
  {Overlay(text, holes, ".") :
     text \in {FullTextFives, FullTextRuns, FullTextPairs},
     holes \in {s \in SUBSET HoleCells : Cardinality(s) <= MaxEmpty}}

InitSearch ==
  /\ \E text \in SearchTexts :
       /\ pb = PentagoBoard(text)
       /\ last = Call("PentagoBoard", ".", None, 0, PentagoBoard(text), 0, FALSE)
  /\ nops = 0
  /\ game = NoGame

\* getComputerMove: the call of miniMax2 for the player's token.  Within a
\* turn the search is made once, on a board just constructed or just moved
\* on; after a move the other player is the one to search.
MiniMax2(token) ==
  /\ last.op \in {"PentagoBoard", "applyMove"}
  /\ last.op = "applyMove" => token # last.token
  /\ LET result == miniMax2(token, pb)
     IN  last' = Call("miniMax2", token, result[1], 0, pb, result[2], FALSE)
  /\ UNCHANGED <<pb, nops, game>>

\* the turn loop applies the move the search returned; with None for a move
\* the loop stops at its first use of the move as a text
Play ==
  /\ last.op = "miniMax2"
  /\ last.move # None
  /\ pb' = applyMove(pb, last.move, last.token)
  /\ last' = Call("applyMove", last.token, last.move, 0, pb, 0,
                  applyMoveRaises(pb, last.move, last.token))
  /\ UNCHANGED <<nops, game>>

NextSearch ==
  \/ \E token \in Tokens : MiniMax2(token)
  \/ Play

SpecSearch == InitSearch /\ [][NextSearch]_vars

(***************************************************************************)
(* What the claims about win and h speak of: runs of a token on the rows,  *)
(* columns and diagonals.                                                  *)
(***************************************************************************)
Directions == {<<0, 1>>, <<1, 0>>, <<1, 1>>, <<1, -1>>}

\* the n cells from c on in direction d are on the board and hold ch
Holds(board, ch, c, d, n) ==
  \A k \in 0 .. (n - 1) :
    /\ <<c[1] + k * d[1], c[2] + k * d[2]>> \in Cells
    /\ board[c[1] + k * d[1]][c[2] + k * d[2]] = ch

HasRun(board, ch, n) ==
  \E c \in Cells, d \in Directions : Holds(board, ch, c, d, n)

\* the runs of ch of length n or more: a run starts at c in direction d when
\* the cell before c on that line is off the board or holds something else
NumRuns(board, ch, n) ==
  Cardinality({x \in Cells \X Directions :
    /\ Holds(board, ch, x[1], x[2], n)
    /\ ~Holds(board, ch, <<x[1][1] - x[2][1], x[1][2] - x[2][2]>>, x[2], 1)})

Interior == {c \in Cells : c[1] \in 1 .. 4 /\ c[2] \in 1 .. 4}

Own(board, ch) ==
  5 * Cardinality({c \in Interior : board[c[1]][c[2]] = ch})
    + 100 * NumRuns(board, ch, 3) + 900 * NumRuns(board, ch, 4)

\* C4: win, for the player holding a token, is true exactly when a row, a
\* column or a diagonal of either direction holds 5 consecutive cells of
\* that token.
C4_WinIffFiveInLine ==
  (last.op = "win") => (last.value <=> HasRun(pb.board, last.token, 5))

\* win returned true for a five that lies on a diagonal only
C4_Witness ==
  /\ last.op = "win"
  /\ last.value
  /\ ~\E c \in Cells, d \in {<<0, 1>>, <<1, 0>>} : Holds(pb.board, last.token, c, d, 5)
  /\ HasRun(pb.board, Other(last.token), 3)

\* C10: on a board without a run of 5 of either token, h for the player
\* holding T is own(T) - own(T'), own(X) being 5 for each X among the 16
\* interior cells, 100 for each run of X of length 3 or more and 900 more
\* for each run of X of length 4 or more.
C10_HeuristicIsOwnMinusOther ==
  (/\ last.op = "h"
   /\ ~HasRun(pb.board, "b", 5)
   /\ ~HasRun(pb.board, "w", 5)) =>
    last.value = Own(pb.board, last.token) - Own(pb.board, Other(last.token))

\* h was called on a board without a five where the player has a run of 4
\* and the other token a run of 3
C10_Witness ==
  /\ last.op = "h"
  /\ ~HasRun(pb.board, "b", 5)
  /\ ~HasRun(pb.board, "w", 5)
  /\ NumRuns(pb.board, last.token, 4) > 0
  /\ NumRuns(pb.board, Other(last.token), 3) > 0
  /\ last.value # 0

\* the last call was applyMove; where it placed, and whether that was legal
LastCell == CellOf(int(last.move[1]), int(last.move[3]))

LastLegal == last.before.board[LastCell[1]][LastCell[2]] = "."

\* C5: the stored empty-cell count of the board equals its number of "."
\* cells after any sequence of construction, rotations and applyMove.
C5_EmptyCellsCounted == pb.emptyCells = NumCells(pb.board, ".")

\* C6: on every board and for every block, rotateLeft undoes rotateRight,
\* rotateRight undoes rotateLeft, and four equal quarter turns give the
\* board back.
C6_RotationsInvert ==
  \A q \in Blocks :
    /\ rotateLeft(rotateRight(pb, q), q) = pb
    /\ rotateRight(rotateLeft(pb, q), q) = pb
    /\ rotateRight(rotateRight(rotateRight(rotateRight(pb, q), q), q), q) = pb
    /\ rotateLeft(rotateLeft(rotateLeft(rotateLeft(pb, q), q), q), q) = pb

\* a rotateLeft call changed the board, and rotateRight leads back
C6_Witness ==
  /\ last.op = "rotateLeft"
  /\ pb # last.before
  /\ rotateRight(pb, last.block) = last.before

\* C7: rotateRight moves the content of cell (ro + r, co + c) of the block
\* to (ro + c, co + 2 - r), rotateLeft moves it to (ro + 2 - c, co + r), and
\* the 27 cells outside the block keep their content.
C7_RotationPermutesBlock ==
  \A q \in Blocks :
    LET ro == 3 * ((q - 1) \div 2)
        co == 3 * ((q - 1) % 2)
        right == rotateRight(pb, q).board
        left == rotateLeft(pb, q).board
    IN  /\ \A r \in 0 .. 2, c \in 0 .. 2 :
             /\ right[ro + c][co + 2 - r] = pb.board[ro + r][co + c]
             /\ left[ro + 2 - c][co + r] = pb.board[ro + r][co + c]
        /\ \A x \in Cells \ BlockCells(q) :
             /\ right[x[1]][x[2]] = pb.board[x[1]][x[2]]
             /\ left[x[1]][x[2]] = pb.board[x[1]][x[2]]
        /\ Cardinality(Cells \ BlockCells(q)) = 27

\* a rotateRight call on the last block changed the board
C7_Witness ==
  /\ last.op = "rotateRight"
  /\ last.block = 4
  /\ pb # last.before

\* C8: a legal applyMove gives the board with the token placed and then the
\* block turned: one more cell of the token, as many of the other token, the
\* cells outside the turned block other than the placed one untouched, and
\* the turned block holding what it held after the placement.
C8_ApplyMovePlacesThenRotates ==
  (last.op = "applyMove" /\ LastLegal) =>
    LET B == last.before.board
        t == last.token
        rq == int(last.move[5])
        placed == [B EXCEPT ![LastCell[1]][LastCell[2]] = t]
        turned == IF last.move[6] = "R" THEN TurnRight(placed, rq)
                  ELSE TurnLeft(placed, rq)
    IN  /\ pb.board = turned
        /\ NumCells(pb.board, t) = NumCells(B, t) + 1
        /\ NumCells(pb.board, Other(t)) = NumCells(B, Other(t))
        /\ \A x \in Cells \ (BlockCells(rq) \cup {LastCell}) :
             pb.board[x[1]][x[2]] = B[x[1]][x[2]]
        /\ \A ch \in Chars :
             Cardinality({x \in BlockCells(rq) : pb.board[x[1]][x[2]] = ch})
               = Cardinality({x \in BlockCells(rq) : placed[x[1]][x[2]] = ch})

\* a legal applyMove placed a token in the block it then turned, and the
\* turn carried the token to another cell
C8_Witness ==
  /\ last.op = "applyMove"
  /\ LastLegal
  /\ LastCell \in BlockCells(int(last.move[5]))
  /\ pb.board[LastCell[1]][LastCell[2]] # last.token
  /\ NumCells(last.before.board, last.token) > 0

\* C9: applyMove with a placement on a cell that is not "." raises, and no
\* board with that cell rewritten comes of it.
C9_OccupiedPlacementRejected ==
  (last.op = "applyMove" /\ ~LastLegal) => (last.raised /\ pb = last.before)

(***************************************************************************)
(* What the claims about miniMax2 speak of.  The last call was miniMax2 on *)
(* the board last.before for the token last.token.                         *)
(***************************************************************************)
SearchMoves == getMoves(last.before)

\* the positions in the enumeration of the moves that win at once
WinningMoves ==
  {n \in 1 .. Len(SearchMoves) :
     HasRun(applyMove(last.before, SearchMoves[n], last.token).board,
            last.token, 5)}

Least(S) == CHOOSE v \in S : \A u \in S : v <= u

Greatest(S) == CHOOSE v \in S : \A u \in S : u <= v

\* the least heuristic value after a reply to the n-th move; a move that
\* leaves no reply has nothing above it
WorstCase(n) ==
  LET newBoard == applyMove(last.before, SearchMoves[n], last.token)
      replies == getMoves(newBoard)
      values == {h(last.token, applyMove(newBoard, replies[r], Other(last.token))) :
                   r \in 1 .. Len(replies)}
  IN  IF values = {} THEN INFINITY + 1 ELSE Least(values)

\* C1: when some legal move of the token makes a five, miniMax2 returns the
\* first such move of the enumeration with the value INFINITY, whatever the
\* number of empty cells from 1 to 36.
C1_FirstWinningMoveReturned ==
  (last.op = "miniMax2" /\ WinningMoves # {}) =>
    /\ last.move = SearchMoves[Least(WinningMoves)]
    /\ last.value = INFINITY

\* C2: on a board with an empty cell miniMax2 returns one of the moves of
\* getMoves; it returns None only when getMoves gives no move.
C2_ReturnedMoveIsLegal ==
  last.op = "miniMax2" =>
    /\ NumCells(last.before.board, ".") >= 1 =>
         \E n \in 1 .. Len(SearchMoves) : last.move = SearchMoves[n]
    /\ last.move = None => Len(SearchMoves) = 0

\* C3: with a legal move and no move that wins at once, miniMax2 returns the
\* greatest, over the moves, of the least heuristic value over the replies,
\* with the first move of the enumeration that attains it.
C3_FirstMaxOfMinReturned ==
  (last.op = "miniMax2" /\ Len(SearchMoves) >= 1 /\ WinningMoves = {}) =>
    LET worst == {<<n, WorstCase(n)>> : n \in 1 .. Len(SearchMoves)}
        best == Greatest({x[2] : x \in worst})
    IN  /\ last.value = best
        /\ last.move = SearchMoves[Least({x[1] : x \in {y \in worst : y[2] = best}})]

(***************************************************************************)
(* SpecDense: win and h are called, for either token, on boards that hold  *)
(* one token everywhere but on a lattice of cells, the cells (i, j) with   *)
(* i * a + j + c divisible by 5, which are empty or hold the other token.  *)
(***************************************************************************)
LatticeSlopes == 1 .. 4

LatticeShifts == 0 .. 4

DenseTexts ==
  UNION {{[k \in 1 .. (BOARD_SIZE * BOARD_SIZE) |->
             IF (((k - 1) \div BOARD_SIZE) * a + ((k - 1) % BOARD_SIZE) + c) % 5 = 0
             THEN fill ELSE t] :
            a \in LatticeSlopes, c \in LatticeShifts, fill \in Chars \ {t}} :
         t \in Tokens}

InitDense ==
  /\ \E text \in DenseTexts :
       /\ pb = PentagoBoard(text)
       /\ last = Call("PentagoBoard", ".", None, 0, PentagoBoard(text), 0, FALSE)
  /\ nops = 0
  /\ game = NoGame

SpecDense == InitDense /\ [][NextEval]_vars

\* C11: on a board without a run of 5 of either token the value of h lies
\* strictly between -9999 and 9999, and every value miniMax2 returns lies
\* in -INFINITY .. INFINITY.
C11_SentinelDominates ==
  /\ (/\ last.op = "h"
      /\ ~HasRun(pb.board, "b", 5)
      /\ ~HasRun(pb.board, "w", 5)) =>
       (last.value > -9999 /\ last.value < 9999)
  /\ last.op = "miniMax2" =>
       (last.value >= -INFINITY /\ last.value <= INFINITY)

(***************************************************************************)
(* SpecMoves: getMoves and toString are called on a board, and moves that  *)
(* getMoves lists are applied to it, at most MaxOps of them.  The boards   *)
(* at the start are the empty board, the board of the comment and the      *)
(* boards of SearchTexts; the moves applied are those of LegalInputs that  *)
(* are in the list.                                                        *)
(***************************************************************************)
MovesTexts == SearchTexts \cup {<<>>, ExampleText}

\* the moves of MoveInputs that turn block 4
LegalInputs == {move \in MoveInputs : move[5] = "4"}

InSeq(seq, x) == \E n \in 1 .. Len(seq) : seq[n] = x

InitMoves ==
  /\ \E text \in MovesTexts :
       /\ pb = PentagoBoard(text)
       /\ last = Call("PentagoBoard", ".", None, 0, PentagoBoard(text), 0, FALSE)
  /\ nops = 0
  /\ game = NoGame

GetMoves ==
  /\ last' = Call("getMoves", ".", None, 0, pb, getMoves(pb), FALSE)
  /\ UNCHANGED <<pb, nops, game>>

BoardToString ==
  /\ last' = Call("toString", ".", None, 0, pb, toString(pb), FALSE)
  /\ UNCHANGED <<pb, nops, game>>

\* applyMove with a move of the list getMoves gives for the board
LegalMove(token) ==
  /\ nops < MaxOps
  /\ LET moveList == getMoves(pb)
     IN  \E move \in LegalInputs :
           /\ InSeq(moveList, move)
           /\ pb' = applyMove(pb, move, token)
           /\ last' = Call("applyMove", token, move, 0, pb, 0,
                           applyMoveRaises(pb, move, token))
  /\ nops' = nops + 1
  /\ UNCHANGED game

NextMoves ==
  \/ GetMoves
  \/ BoardToString
  \/ \E token \in Tokens : LegalMove(token)

SpecMoves == InitMoves /\ [][NextMoves]_vars

\* the cells in row-major order, and those of them that are empty on a board
RowMajor == [k \in 1 .. (BOARD_SIZE * BOARD_SIZE) |->
               <<(k - 1) \div BOARD_SIZE, (k - 1) % BOARD_SIZE>>]

EmptyInOrder(board) == SelectSeq(RowMajor, LAMBDA c : board[c[1]][c[2]] = ".")

\* C12: getMoves gives exactly 8 moves for each empty cell of the board, so
\* 8 times the number of empty cells in all, and no move exactly when the
\* board has no empty cell.
C12_EightMovesPerEmptyCell ==
  last.op = "getMoves" =>
    /\ Len(last.value) = 8 * NumCells(pb.board, ".")
    /\ LET placed == {<<n, applyMoveRow(last.value[n]), applyMoveCol(last.value[n])>> :
                         n \in 1 .. Len(last.value)}
       IN  \A c \in Cells :
             Cardinality({x \in placed : x[2] = c[1] /\ x[3] = c[2]})
               = IF pb.board[c[1]][c[2]] = "." THEN 8 ELSE 0
    /\ Cardinality({last.value[n] : n \in 1 .. Len(last.value)}) = Len(last.value)
    /\ (last.value = <<>>) <=> (NumCells(pb.board, ".") = 0)

\* getMoves was called after a move, on a board with tokens of both kinds
\* and with empty cells
C12_Witness ==
  /\ last.op = "getMoves"
  /\ nops >= 1
  /\ NumCells(pb.board, "b") > 0
  /\ NumCells(pb.board, "w") > 0
  /\ Len(last.value) >= 16

\* C13: getMoves lists the moves by empty cell in row-major order, then by
\* block 1 to 4, then L before R, each as the text
\* <block>/<position> <block turned><L|R> of the empty cell, and applyMove
\* decodes the text to that cell.
C13_MovesInOrderAndDecoded ==
  last.op = "getMoves" =>
    LET empties == EmptyInOrder(pb.board)
    IN  /\ Len(last.value) = 8 * Len(empties)
        /\ \A n \in 1 .. Len(last.value) :
             LET c == empties[((n - 1) \div 8) + 1]
                 q == (((n - 1) % 8) \div 2) + 1
                 d == IF (n - 1) % 2 = 0 THEN "L" ELSE "R"
             IN  /\ last.value[n] =
                      << Digits[2 * (c[1] \div 3) + (c[2] \div 3) + 2], "/",
                         Digits[3 * (c[1] % 3) + (c[2] % 3) + 2], " ",
                         Digits[q + 1], d >>
                 /\ <<applyMoveRow(last.value[n]), applyMoveCol(last.value[n])>> = c

\* getMoves was called on a board whose first cell is taken and that has
\* empty cells in more than one row and more than one block
C13_Witness ==
  /\ last.op = "getMoves"
  /\ pb.board[0][0] # "."
  /\ Len(last.value) >= 16
  /\ last.value[1][1] # last.value[Len(last.value)][1]
  /\ applyMoveRow(last.value[1]) # applyMoveRow(last.value[Len(last.value)])

\* C14: for a board reached by legal moves, the board constructed from its
\* toString equals it in its cells and its empty-cell count, and has the
\* same toString.
C14_ToStringRoundTrip ==
  last.op = "toString" =>
    /\ PentagoBoard(last.value) = pb
    /\ toString(PentagoBoard(last.value)) = last.value

(***************************************************************************)
(* SpecConstruct: gameSetup holds the empty board and constructs the board *)
(* of the -b option from the text given.  The texts are the board of the   *)
(* comment and the empty board as 36 characters, the board of the comment  *)
(* cut short, lengthened by up to MaxExtra characters, and with one        *)
(* character replaced by a character that is no cell content.              *)
(***************************************************************************)
MaxExtra == 2

OtherChars == {"x", "W"}

Extras == UNION {[1 .. n -> Chars] : n \in 1 .. MaxExtra}

ConstructTexts ==
  {ExampleText, Dots}
    \cup {SubSeq(ExampleText, 1, k) : k \in 1 .. (BOARD_SIZE * BOARD_SIZE - 1)}
    \cup {ExampleText \o extra : extra \in Extras}
    \cup {[ExampleText EXCEPT ![k] = ch] :
            k \in 1 .. (BOARD_SIZE * BOARD_SIZE), ch \in OtherChars}

InitConstruct ==
  /\ pb = PentagoBoard(<<>>)
  /\ last = Call("PentagoBoard", ".", None, 0, PentagoBoard(<<>>), <<>>, FALSE)
  /\ nops = 0
  /\ game = NoGame

\* pb = PentagoBoard(arg): an exception leaves no new board
Construct(arg) ==
  /\ nops = 0
  /\ IF PentagoBoardRaises(arg)
     THEN /\ pb' = pb
          /\ last' = Call("PentagoBoard", ".", None, 0, pb, arg, TRUE)
     ELSE /\ pb' = PentagoBoard(arg)
          /\ last' = Call("PentagoBoard", ".", None, 0, pb, arg, FALSE)
  /\ nops' = nops + 1
  /\ UNCHANGED game

NextConstruct == \E arg \in ConstructTexts : Construct(arg)

SpecConstruct == InitConstruct /\ [][NextConstruct]_vars

\* a text that is no board: not empty, and not 36 characters or with a
\* character other than the two tokens and "."
Malformed(text) ==
  /\ text # <<>>
  /\ \/ Len(text) # BOARD_SIZE * BOARD_SIZE
     \/ \E k \in 1 .. Len(text) : text[k] \notin Chars

\* C15: the construction of a board from a malformed text is rejected and
\* gives no board.
C15_MalformedTextRejected ==
  (last.op = "PentagoBoard" /\ Malformed(last.value)) =>
    (last.raised /\ pb = last.before)

\* C16: on a board without an empty cell getMoves gives the empty sequence
\* and miniMax2 returns None with the value 0, for either token.
C16_FullBoardNoMove ==
  (last.op = "miniMax2" /\ NumCells(last.before.board, ".") = 0) =>
    /\ getMoves(last.before) = <<>>
    /\ last.move = None
    /\ last.value = 0

\* miniMax2 was called on a board that a move had just filled, with a five
\* on it
C16_Witness ==
  /\ last.op = "miniMax2"
  /\ NumCells(last.before.board, ".") = 0
  /\ last.before # PentagoBoard(toString(last.before))
  /\ HasRun(last.before.board, Other(last.token), 5)

\* C20: on every board, with or without runs of 5, the value of h for the
\* player holding one token is the negation of the value of h for the
\* player holding the other token.
C20_HeuristicAntisymmetric ==
  last.op = "h" => last.value = -h(Other(last.token), pb)

(***************************************************************************)
(* Spec: the turn loop of the main program.  game holds the two players    *)
(* (player 1 is player[0] in the code, here player[1]), the loop's local   *)
(* variables gameOver, currentPlayer (0 or 1) and numEmpty, how the loop   *)
(* was left (exited by "exit", crashed by an exception), and for the       *)
(* record the board the game started on and the number of moves applied.   *)
(* One action is one pass through the body of the loop.                    *)
(*                                                                         *)
(* A human player's input that is not in getMoves is asked for again with  *)
(* nothing changed, so getHumanMove is modelled by what it returns: "exit" *)
(* or a move of the list.  The moves a human types are those of            *)
(* HumanInputs.  A computer player searches with miniMax2; computer        *)
(* players are set up on the boards of SearchTexts, human players on those *)
(* and on the empty board and the board of the comment.  At most MaxTurns  *)
(* passes are made.                                                        *)
(***************************************************************************)
MaxTurns == 3

Exit == <<"e", "x", "i", "t">>

PlayerTypes == {"human", "computer"}

\* the turns a human makes after a placement: block 1 left, block 4 right
HumanTurns == {<<"1", "L">>, <<"4", "R">>}

HumanInputs ==
  {<<str(2 * (c[1] \div 3) + (c[2] \div 3) + 1), "/",
     str(3 * (c[1] % 3) + (c[2] % 3) + 1), " ", t[1], t[2]>> :
     c \in HoleCells, t \in HumanTurns}

GameTexts == SearchTexts \cup {<<>>, ExampleText}

\* gameOver = win0 or win1 or numEmpty == 0, for the player of one token only
turnGameOverOneToken(win0, win1, numEmpty) == win0 \/ numEmpty = 0

turnGameOver(win0, win1, numEmpty) == win0 \/ win1 \/ numEmpty = 0

\* currentPlayer left as it is
turnSamePlayer(currentPlayer) == currentPlayer

turnNextPlayer(currentPlayer) == 1 - currentPlayer

Init ==
  /\ \E text \in GameTexts, token \in Tokens, type0 \in PlayerTypes, type1 \in PlayerTypes :
       /\ (type0 = "computer" \/ type1 = "computer") => text \in SearchTexts
       /\ pb = PentagoBoard(text)
       /\ last = Call("PentagoBoard", ".", None, 0, PentagoBoard(text), 0, FALSE)
       /\ game = [running |-> TRUE,
                  player |-> <<[playerType |-> type0, token |-> token],
                               [playerType |-> type1,
                                token |-> IF token = "b" THEN "w" ELSE "b"]>>,
                  gameOver |-> FALSE,
                  currentPlayer |-> 0,
                  numEmpty |-> PentagoBoard(text).emptyCells,
                  win0 |-> FALSE,
                  win1 |-> FALSE,
                  exited |-> FALSE,
                  crashed |-> FALSE,
                  initial |-> PentagoBoard(text),
                  applied |-> 0]
  /\ nops = 0

\* the loop is about to ask the current player for a move
TurnPending ==
  /\ game.running
  /\ ~game.gameOver
  /\ ~game.exited
  /\ ~game.crashed
  /\ nops < MaxTurns

CurrentPlayer == game.player[game.currentPlayer + 1]

\* the body of the loop from the applyMove on, for the move the player gave
TurnApply(move) ==
  LET newBoard == applyMove(pb, move, CurrentPlayer.token)
      numEmpty == game.numEmpty - 1
      win0 == win(game.player[1].token, newBoard)
      win1 == win(game.player[2].token, newBoard)
  IN  /\ pb' = newBoard
      /\ game' = [game EXCEPT !.numEmpty = numEmpty,
                              !.win0 = win0,
                              !.win1 = win1,
                              !.gameOver = turnGameOver(win0, win1, numEmpty),
                              !.currentPlayer = turnNextPlayer(game.currentPlayer),
                              !.applied = game.applied + 1]
      /\ last' = Call("playerMove", CurrentPlayer.token, move, 0, pb, 0, FALSE)
      /\ nops' = nops + 1

\* a human player types a move of the list
HumanTurn(hMove) ==
  /\ TurnPending
  /\ CurrentPlayer.playerType = "human"
  /\ InSeq(getMoves(pb), hMove)
  /\ TurnApply(hMove)

\* a human player types exit: the loop is left by break
HumanExit ==
  /\ TurnPending
  /\ CurrentPlayer.playerType = "human"
  /\ game' = [game EXCEPT !.exited = TRUE]
  /\ last' = Call("playerMove", CurrentPlayer.token, Exit, 0, pb, 0, FALSE)
  /\ nops' = nops + 1
  /\ UNCHANGED pb

\* a computer player: getComputerMove gives the move of miniMax2; the move
\* None raises TypeError where the loop joins it to a text
ComputerTurn ==
  /\ TurnPending
  /\ CurrentPlayer.playerType = "computer"
  /\ \E move \in {miniMax2(CurrentPlayer.token, pb)[1]} :
       IF move = None
       THEN /\ game' = [game EXCEPT !.crashed = TRUE]
            /\ last' = Call("playerMove", CurrentPlayer.token, None, 0, pb, 0, TRUE)
            /\ nops' = nops + 1
            /\ UNCHANGED pb
       ELSE TurnApply(move)

Next ==
  \/ \E hMove \in HumanInputs : HumanTurn(hMove)
  \/ HumanExit
  \/ ComputerTurn

Spec == Init /\ [][Next]_vars

\* a run of 5 of either player's token
AnyFive(board) == HasRun(board, "b", 5) \/ HasRun(board, "w", 5)

\* C17: with every requested move legal and no player leaving by exit, the
\* players alternate starting with player 1; once a move is applied the loop
\* has stopped exactly when the board holds a run of 5 of either player or
\* numEmpty is 0; no move is applied to a board an earlier move left with a
\* run of 5; and a game started with n >= 1 empty cells applies at most n moves.
C17_LoopStopsAtFirstFiveOrFull ==
  (game.running /\ ~game.exited /\ ~game.crashed) =>
    /\ game.currentPlayer = game.applied % 2
    /\ game.applied = 0 => ~game.gameOver
    /\ game.applied >= 1 =>
         /\ game.gameOver <=> (AnyFive(pb.board) \/ game.numEmpty = 0)
         /\ last.op = "playerMove"
         /\ last.token = game.player[((game.applied - 1) % 2) + 1].token
    /\ game.applied >= 2 => ~AnyFive(last.before.board)
    /\ NumCells(game.initial.board, ".") >= 1 =>
         game.applied <= NumCells(game.initial.board, ".")

\* C17 witness: the loop has stopped on a run of 5 of the player who did not
\* make the last move, with empty cells left.
C17_Witness ==
  /\ game.running
  /\ game.gameOver
  /\ game.applied >= 1
  /\ game.numEmpty > 0
  /\ HasRun(pb.board, Other(last.token), 5)
  /\ ~HasRun(pb.board, last.token, 5)

\* C17 second witness: the loop has stopped on numEmpty = 0 without a run of 5.
C17_WitnessFull ==
  /\ game.running
  /\ game.gameOver
  /\ game.applied = 2
  /\ game.numEmpty = 0
  /\ ~AnyFive(pb.board)

\* C18: in a game started on the empty board, after k moves the board holds
\* ceil(k/2) tokens of player 1, floor(k/2) tokens of player 2 and 36 - k empty
\* cells, and numEmpty is 36 - k.
C18_TokensAlternateFromEmptyBoard ==
  (game.running /\ game.initial = PentagoBoard(<<>>)) =>
    /\ NumCells(pb.board, game.player[1].token) = (game.applied + 1) \div 2
    /\ NumCells(pb.board, game.player[2].token) = game.applied \div 2
    /\ NumCells(pb.board, ".") = BOARD_SIZE * BOARD_SIZE - game.applied
    /\ game.numEmpty = BOARD_SIZE * BOARD_SIZE - game.applied

\* C18 witness: three moves applied to the empty board.
C18_Witness ==
  /\ game.running
  /\ game.initial = PentagoBoard(<<>>)
  /\ game.applied = 3
  /\ NumCells(pb.board, game.player[1].token) = 2

\* C19: the turn loop never asks a player for a move on a board without an
\* empty cell or on a board with a run of 5, whatever board the game starts on.
C19_NoRequestOnFinishedBoard ==
  (game.running /\ last.op = "playerMove") =>
    /\ NumCells(last.before.board, ".") > 0
    /\ ~AnyFive(last.before.board)

====
